---------------------------- MODULE Spec2Model ----------------------------
(***************************************************************************)
(* Rechenberg's (1+1)-Evolution Strategy with the 1/5th success rule       *)
(* (pypop7/optimizers/es/res.py, class RES).                                *)
(*                                                                         *)
(* The main loop of RES.optimize is modelled statement group by statement  *)
(* group; pc is the position of the loop.  Search points are integers of a *)
(* one-dimensional grid and the objective is the sphere function on it, so *)
(* that distinct points can tie in fitness.  sigma is kept in the log      *)
(* domain: the integer sigma stands for the step size                      *)
(*     exp(0.2 * eta_sigma * sigma)   (eta_sigma > 0),                     *)
(* so that multiplying the step size by exp(eta_sigma*(1 - 1/5)) adds 4    *)
(* and multiplying it by exp(eta_sigma*(0 - 1/5)) subtracts 1, and the     *)
(* order of step sizes is the order of the integers.                       *)
(***************************************************************************)
EXTENDS Integers, Sequences, FiniteSets

\* ---------------------------------------------------------------- bounds
\* Search points are -MaxPoint .. MaxPoint.
MaxPoint == 2
\* The evaluation budget max_function_evaluations is drawn from 1 .. MaxBudget.
MaxBudget == 6
\* The dimension ndim_problem is drawn from 1 .. MaxDim where construction is checked.
MaxDim == 2

\* np.inf, the value of the base optimizer's best_so_far_y before any evaluation.
Inf == 1000

Points == (0 - MaxPoint) .. MaxPoint

\* The objective (sphere function), a black box for the optimizer.
fitness_function(p) == p * p

Budgets == 1 .. MaxBudget
\* Options of the run (log-domain step sizes, window sizes, thresholds).
SigmaOptions == {0, 1}
SigmaThresholdOptions == {0 - 2, 1}
StagnationOptions == {2, 3}
FitnessDiffOptions == {0, 2}

VARIABLES
    pc,                       \* position in RES.optimize
    \* options, fixed at construction
    is_restart, record_fitness, stagnation, fitness_diff, sigma_threshold,
    max_function_evaluations, sigma_bak,
    ndim_problem,
    eta_sigma,                \* <<a, b>> stands for a / sqrt(b); None when not given
    \* attributes of the optimizer
    sigma, n_restart, n_generations, n_function_evaluations,
    self_best_so_far_y,       \* self.best_so_far_y, kept by _evaluate_fitness
    fitness_list,             \* self._fitness_list, the rolling history
    termination_signal,
    \* locals of RES.optimize
    mean, x, y, best_so_far_y, fitness

options == <<is_restart, record_fitness, stagnation, fitness_diff, sigma_threshold,
             max_function_evaluations, sigma_bak, ndim_problem, eta_sigma>>
attributes == <<sigma, n_restart, n_generations, n_function_evaluations,
                self_best_so_far_y, fitness_list, termination_signal>>
locals == <<mean, x, y, best_so_far_y, fitness>>
vars == <<pc, options, attributes, locals>>

\* --------------------------------------------------------------- helpers
Last(s) == s[Len(s)]
\* s[-k] of a Python list, 1 <= k <= len(s)
FromEnd(s, k) == s[Len(s) - k + 1]

\* self._evaluate_fitness(p, args): the fitness of p; the evaluation is counted
\* and the optimizer's own best-so-far fitness is lowered when p improves on it.
evaluate_fitness(p) ==
    /\ n_function_evaluations' = n_function_evaluations + 1
    /\ self_best_so_far_y' = IF fitness_function(p) < self_best_so_far_y
                             THEN fitness_function(p) ELSE self_best_so_far_y

\* self._initialize_mean(is_restart): the configured mean on the first call (the
\* local mean holds it from construction), any point of the search space on a restart.
initialize_mean(restart) == IF restart THEN Points ELSE {mean}

\* self._check_terminations(): the budget of evaluations is exhausted, or the
\* budget of time is (which may happen at any poll).
check_terminations(timeout) ==
    IF n_function_evaluations >= max_function_evaluations THEN "MAX_FUNCTION_EVALUATIONS"
    ELSE IF timeout THEN "MAX_RUNTIME"
    ELSE "NO_TERMINATION"

\* ---------------------------------------------------------- construction
\* options.get('eta_sigma') when the option is not given
None == <<0, 0>>

\* The values of the option eta_sigma: not given, -1, 0, 1.
EtaSigmaOptions == {None} \cup {<<a, 1>> : a \in (0 - 1) .. 1}

\* 1.0 / np.sqrt(self.ndim_problem + 1.0), line 114
default_eta_sigma(n) == <<1, n + 1>>

\* mutant: the assertion lets a zero learning rate pass
assert_eta_sigma_nonnegative(e) == e[1] >= 0 /\ e[2] > 0

\* self.eta_sigma > 0, the assertion of line 115, of a / sqrt(b)
assert_eta_sigma(e) == e[1] > 0 /\ e[2] > 0

\* The state after ES.__init__, at line 113 of RES.__init__.
InitConstruct ==
    /\ pc = "construct"
    /\ is_restart \in BOOLEAN
    /\ record_fitness \in BOOLEAN
    /\ stagnation \in StagnationOptions
    /\ fitness_diff \in FitnessDiffOptions
    /\ sigma_threshold \in SigmaThresholdOptions
    /\ max_function_evaluations \in {1, 3}
    /\ ndim_problem \in 1 .. MaxDim
    /\ eta_sigma \in EtaSigmaOptions
    /\ sigma \in SigmaOptions
    /\ sigma_bak = sigma
    /\ n_restart = 0
    /\ n_generations = 0
    /\ n_function_evaluations = 0
    /\ self_best_so_far_y = Inf
    /\ fitness_list = <<Inf>>
    /\ termination_signal = "NO_TERMINATION"
    /\ mean \in Points
    /\ x = mean
    /\ y = Inf
    /\ best_so_far_y = Inf
    /\ fitness = <<>>

\* RES.__init__, lines 113-115: the default learning rate and the assertion,
\* whose failure leaves no optimizer to run.
Construct ==
    /\ pc = "construct"
    /\ eta_sigma' = IF eta_sigma = None THEN default_eta_sigma(ndim_problem)
                    ELSE eta_sigma
    /\ pc' = IF assert_eta_sigma(eta_sigma') THEN "optimize" ELSE "failed"
    /\ UNCHANGED <<is_restart, record_fitness, stagnation, fitness_diff,
                   sigma_threshold, max_function_evaluations, sigma_bak,
                   ndim_problem, attributes, locals>>

\* ------------------------------------------------------------------ Init
\* The state after RES.__init__ and before optimize is called, of a problem on
\* the one-dimensional grid with the default learning rate.
Init ==
    /\ pc = "optimize"
    /\ is_restart \in BOOLEAN
    /\ record_fitness \in BOOLEAN
    /\ stagnation \in StagnationOptions
    /\ fitness_diff \in FitnessDiffOptions
    /\ sigma_threshold \in SigmaThresholdOptions
    /\ max_function_evaluations \in Budgets
    /\ ndim_problem = 1
    /\ eta_sigma = default_eta_sigma(ndim_problem)
    /\ sigma \in SigmaOptions
    /\ sigma_bak = sigma
    /\ n_restart = 0
    /\ n_generations = 0
    /\ n_function_evaluations = 0
    /\ self_best_so_far_y = Inf
    /\ fitness_list = <<Inf>>
    /\ termination_signal = "NO_TERMINATION"
    /\ mean \in Points
    /\ x = mean
    /\ y = Inf
    /\ best_so_far_y = Inf
    /\ fitness = <<>>

\* --------------------------------------------------------------- actions
\* mutant: the fitness of the mean is taken without a counted evaluation
initialize_uncounted(restart) ==
    \E m \in initialize_mean(restart) :
       /\ mean' = m
       /\ y' = fitness_function(m)
       /\ best_so_far_y' = fitness_function(m)
       /\ UNCHANGED <<n_function_evaluations, self_best_so_far_y>>

\* RES.initialize(args, is_restart), lines 117-121
initialize(restart) ==
    \E m \in initialize_mean(restart) :
       /\ mean' = m
       /\ y' = fitness_function(m)
       /\ best_so_far_y' = fitness_function(m)
       /\ evaluate_fitness(m)

\* optimize, lines 144-146
OptimizeStart ==
    /\ pc = "optimize"
    /\ initialize(FALSE)
    /\ fitness' = <<y'>>
    /\ pc' = "iterate"
    /\ UNCHANGED <<options, sigma, n_restart, n_generations, fitness_list,
                   termination_signal, x>>

\* mutant: the sample is recorded whether or not record_fitness is set
Iterate_recorded ==
    /\ pc = "iterate"
    /\ \E p \in Points :
          /\ x' = p
          /\ y' = fitness_function(p)
          /\ evaluate_fitness(p)
    /\ fitness' = Append(fitness, y')
    /\ pc' = "check"
    /\ UNCHANGED <<options, sigma, n_restart, n_generations, fitness_list,
                   termination_signal, mean, best_so_far_y>>

\* optimize, lines 148-150: iterate (lines 123-127), then the optional record of
\* the sample.  The step size is positive, so the normal draw can land anywhere.
Iterate ==
    /\ pc = "iterate"
    /\ \E p \in Points :
          /\ x' = p
          /\ y' = fitness_function(p)
          /\ evaluate_fitness(p)
    /\ fitness' = IF record_fitness THEN Append(fitness, y') ELSE fitness
    /\ pc' = "check"
    /\ UNCHANGED <<options, sigma, n_restart, n_generations, fitness_list,
                   termination_signal, mean, best_so_far_y>>

\* mutant: the step size is adapted before the termination check
CheckTerminations_adapted ==
    /\ pc = "check"
    /\ sigma' = sigma + (IF y < best_so_far_y THEN 4 ELSE 0 - 1)
    /\ \E timeout \in BOOLEAN :
          /\ termination_signal' = check_terminations(timeout)
          /\ pc' = IF termination_signal' # "NO_TERMINATION" THEN "done" ELSE "select"
    /\ n_generations' = IF pc' = "done" THEN n_generations ELSE n_generations + 1
    /\ UNCHANGED <<options, n_restart, n_function_evaluations,
                   self_best_so_far_y, fitness_list, locals>>

\* mutant: the loop goes on when the budget is just reached
CheckTerminations_strict ==
    /\ pc = "check"
    /\ \E timeout \in BOOLEAN :
          /\ termination_signal' =
                IF n_function_evaluations > max_function_evaluations
                THEN "MAX_FUNCTION_EVALUATIONS"
                ELSE IF timeout THEN "MAX_RUNTIME" ELSE "NO_TERMINATION"
          /\ pc' = IF termination_signal' # "NO_TERMINATION" THEN "done" ELSE "adapt"
    /\ UNCHANGED <<options, sigma, n_restart, n_generations, n_function_evaluations,
                   self_best_so_far_y, fitness_list, locals>>

\* optimize, lines 151-152
CheckTerminations ==
    /\ pc = "check"
    /\ \E timeout \in BOOLEAN :
          /\ termination_signal' = check_terminations(timeout)
          /\ pc' = IF termination_signal' # "NO_TERMINATION" THEN "done" ELSE "adapt"
    /\ UNCHANGED <<options, sigma, n_restart, n_generations, n_function_evaluations,
                   self_best_so_far_y, fitness_list, locals>>

\* mutant: 1/5 taken as an integer division
success_exponent_floored(y_, best_) == IF y_ < best_ THEN 5 ELSE 0

\* mutant: a tie counts as a success
success_exponent_tie(y_, best_) == IF y_ <= best_ THEN 4 ELSE 0 - 1

\* float(y < best_so_far_y) - 1/5 of line 153, in units of 1/5
success_exponent(y_, best_) == IF y_ < best_ THEN 4 ELSE 0 - 1

\* mutant: the generation is not counted
next_generation_skipped == n_generations

\* self._n_generations += 1, line 154
next_generation == n_generations + 1

\* optimize, lines 153-155
AdaptSigma ==
    /\ pc = "adapt"
    /\ sigma' = sigma + success_exponent(y, best_so_far_y)
    /\ n_generations' = next_generation
    /\ pc' = "select"
    /\ UNCHANGED <<options, n_restart, n_function_evaluations, self_best_so_far_y,
                   fitness_list, termination_signal, locals>>

\* mutant: every sample is accepted
accepts_always(y_, best_) == TRUE

\* mutant: a tie is accepted
accepts_tie(y_, best_) == y_ <= best_

\* the acceptance test of line 156
accepts(y_, best_) == y_ < best_

\* optimize, lines 156-158
UpdateIncumbent ==
    /\ pc = "select"
    /\ IF accepts(y, best_so_far_y)
       THEN mean' = x /\ best_so_far_y' = y
       ELSE UNCHANGED <<mean, best_so_far_y>>
    /\ pc' = IF is_restart THEN "restart" ELSE "iterate"
    /\ UNCHANGED <<options, attributes, x, y, fitness>>

\* mutant: the history is not appended to
appended_fitness_list_skipped == fitness_list

\* self._fitness_list.append(self.best_so_far_y), line 130
appended_fitness_list == Append(fitness_list, self_best_so_far_y)

\* mutant: the operands of Detector A are exchanged
is_restart_1_exchanged == sigma_threshold < sigma

\* restart_initialize, lines 131-134, on the history hist after the append
is_restart_1 == sigma < sigma_threshold

\* mutant: the window is compared with <=
is_restart_2_le(hist) ==
    /\ Len(hist) >= stagnation
    /\ FromEnd(hist, stagnation) - Last(hist) <= fitness_diff

is_restart_2(hist) ==
    /\ Len(hist) >= stagnation
    /\ FromEnd(hist, stagnation) - Last(hist) < fitness_diff

\* mutant: the adapted step size survives the restart
restart_sigma_kept == sigma

\* np.copy(self._sigma_bak), line 137
restart_sigma == sigma_bak

\* mutant: the history is extended instead of reset
restart_fitness_list_extended(best_) == Append(appended_fitness_list, best_)

\* self._fitness_list = [best_so_far_y], line 140
restart_fitness_list(best_) == <<best_>>

\* optimize line 159 and restart_initialize, lines 129-141
RestartInitialize ==
    /\ pc = "restart"
    /\ IF is_restart_1 \/ is_restart_2(appended_fitness_list)
       THEN /\ n_restart' = n_restart + 1
            /\ sigma' = restart_sigma
            /\ initialize(TRUE)
            /\ fitness' = Append(fitness, y')
            /\ fitness_list' = restart_fitness_list(best_so_far_y')
       ELSE /\ fitness_list' = appended_fitness_list
            /\ UNCHANGED <<n_restart, sigma, mean, y, best_so_far_y, fitness,
                           n_function_evaluations, self_best_so_far_y>>
    /\ pc' = "iterate"
    /\ UNCHANGED <<options, n_generations, termination_signal, x>>

Next ==
    \/ OptimizeStart
    \/ Iterate
    \/ CheckTerminations
    \/ AdaptSigma
    \/ UpdateIncumbent
    \/ RestartInitialize

Spec == Init /\ [][Next]_vars

\* The loop of optimize never pauses: it takes its next step while it has one.
\* Termination does not read the fitness trace: runs that record nothing.
InitFair == Init /\ record_fitness = FALSE

FairSpec == InitFair /\ [][Next]_vars /\ WF_vars(Next)

\* Longer runs: the largest budget and two evaluations more, nothing recorded,
\* the lower threshold of the step size, Detector B's window at its widest.
InitLong ==
    /\ pc = "optimize"
    /\ is_restart \in BOOLEAN
    /\ record_fitness = FALSE
    /\ stagnation = 3
    /\ fitness_diff = 0
    /\ sigma_threshold = 0 - 2
    /\ max_function_evaluations = MaxBudget + 2
    /\ ndim_problem = 1
    /\ eta_sigma = default_eta_sigma(ndim_problem)
    /\ sigma \in SigmaOptions
    /\ sigma_bak = sigma
    /\ n_restart = 0
    /\ n_generations = 0
    /\ n_function_evaluations = 0
    /\ self_best_so_far_y = Inf
    /\ fitness_list = <<Inf>>
    /\ termination_signal = "NO_TERMINATION"
    /\ mean \in Points
    /\ x = mean
    /\ y = Inf
    /\ best_so_far_y = Inf
    /\ fitness = <<>>

SpecLong == InitLong /\ [][Next]_vars

\* Construction, then the run.
NextConstruct ==
    \/ Construct
    \/ Next

SpecConstruct == InitConstruct /\ [][NextConstruct]_vars

\* ---------------------------------------------------------------- claims

\* C1 as stated: the incumbent fitness best_so_far_y of the main loop never
\* increases from one step of the run to the next, restarts included.
C1_NonIncreasing == [][best_so_far_y' <= best_so_far_y]_vars

\* C1 amended: best_so_far_y never increases across a step in which no restart
\* fires (so never, when the restart gate is disabled); a restart that fires
\* replaces it by the fitness of the restart point.
C1_NonIncreasingUnlessRestart ==
    [][(n_restart' = n_restart \/ ~is_restart) => best_so_far_y' <= best_so_far_y]_vars

\* two generations without a restart, gate enabled, the incumbent improved
C1_Witness ==
    /\ pc = "iterate" /\ is_restart /\ n_restart = 0 /\ n_generations >= 2
    /\ best_so_far_y < fitness[1]

\* C2 as stated: before termination the evaluation counter is one plus the
\* number of completed generations, also in runs in which restarts fire.
C2_OnePlusGenerations ==
    pc = "iterate" => n_function_evaluations = 1 + n_generations

\* C2 amended: every fired restart costs one more evaluation: between generations
\* the evaluation counter is one plus the completed generations plus the fired
\* restarts, and one more than that between a generation's sample and its count.
C2_OnePlusGenerationsPlusRestarts ==
    /\ pc \in {"iterate", "select", "restart"} =>
          n_function_evaluations = 1 + n_generations + n_restart
    /\ pc \in {"check", "adapt"} =>
          n_function_evaluations = 2 + n_generations + n_restart

\* between generations, after a restart has fired
C2_Witness == pc = "iterate" /\ n_restart >= 1 /\ n_generations >= 2

\* C3: in a non-terminating generation sigma is updated exactly once, by +0.8
\* eta_sigma in the exponent if y < best_so_far_y and by -0.2 eta_sigma otherwise
\* (a tie included), against the incumbent as it was before the generation's
\* incumbent update, and before the incumbent update and the restart check.
C3_SigmaRule ==
    [][ /\ pc = "adapt" =>
              /\ sigma' = sigma + (IF y < best_so_far_y THEN 4 ELSE 0 - 1)
              /\ UNCHANGED <<mean, best_so_far_y, n_restart, fitness_list>>
              /\ pc' = "select"
        /\ pc \in {"iterate", "check", "select"} => sigma' = sigma
        /\ (pc = "check" /\ pc' # "done") => pc' = "adapt"
        /\ pc' \in {"select"} => pc = "adapt"
        /\ pc' = "restart" => pc = "select"
      ]_vars

\* a tie in the first generation has shrunk sigma, the incumbent not yet updated
C3_Witness ==
    /\ pc = "select" /\ n_generations = 1
    /\ y = best_so_far_y /\ x # mean /\ sigma = sigma_bak - 1

\* C4: the generation whose termination check is true changes none of sigma,
\* the generation counter, mean, best_so_far_y, the restart counter and the
\* rolling history, and ends the run; its sample is appended to the fitness
\* trace if and only if record_fitness is set.
C4_TerminatingGenerationFrame ==
    [][ /\ pc = "iterate" =>
              /\ UNCHANGED <<sigma, n_generations, mean, best_so_far_y, n_restart,
                             fitness_list>>
              /\ fitness' = IF record_fitness THEN Append(fitness, y') ELSE fitness
              /\ pc' = "check"
        /\ (pc = "check" /\ pc' = "done") =>
              UNCHANGED <<sigma, n_generations, mean, best_so_far_y, n_restart,
                          fitness_list, fitness>>
        /\ pc = "check" => pc' \in {"done", "adapt"}
        /\ pc = "done" => UNCHANGED vars
      ]_vars

\* the run ended on a sample that improves on the incumbent, which it left alone
C4_Witness ==
    /\ pc = "done" /\ record_fitness /\ n_generations >= 1
    /\ y < best_so_far_y /\ Last(fitness) = y

\* C5 as stated: sigma is adapted also in the generation whose termination
\* check is true.
C5_AdaptedOnTermination ==
    [][(pc = "check" /\ pc' = "done") =>
           sigma' = sigma + (IF y < best_so_far_y THEN 4 ELSE 0 - 1)]_vars

\* C5 amended: sigma is adapted after a generation's sample only when the
\* termination check is false; the generation whose check is true leaves sigma
\* as it was.
C5_AdaptedUnlessTerminating ==
    [][ /\ pc = "check" => sigma' = sigma
        /\ (pc = "check" /\ termination_signal' = "NO_TERMINATION") => pc' = "adapt"
        /\ (pc = "check" /\ termination_signal' # "NO_TERMINATION") => pc' = "done"
        /\ pc = "adapt" => sigma' \in {sigma + 4, sigma - 1}
      ]_vars

\* two failures adapted sigma twice, the terminating third generation did not
C5_Witness ==
    /\ pc = "done" /\ n_generations = 2 /\ n_restart = 0
    /\ sigma = sigma_bak - 2 /\ y >= best_so_far_y

\* C6: a restart that fires leaves sigma equal to the backup _sigma_bak, the
\* backup is never modified, and the next sample is drawn with that sigma.
C6_RestartResetsSigma ==
    [][ /\ sigma_bak' = sigma_bak
        /\ n_restart' # n_restart => (sigma' = sigma_bak /\ pc' = "iterate")
        /\ pc = "iterate" => sigma' = sigma
      ]_vars

\* the first sample after a restart has been drawn
C6_Witness ==
    /\ pc = "check" /\ n_restart >= 1 /\ Len(fitness_list) = 1
    /\ n_generations >= 2 /\ sigma = sigma_bak

\* C7: at the end of a non-terminating generation a restart fires if and only if
\* the is_restart gate is set and sigma < sigma_threshold or the history, of at
\* least stagnation entries, has history[-stagnation] - history[-1] < fitness_diff;
\* a check that does not fire leaves mean, y, best_so_far_y, sigma and the
\* restart counter alone.
C7_RestartIff ==
    [][ /\ (n_restart' # n_restart) <=>
              /\ pc = "restart"
              /\ is_restart
              /\ \/ sigma < sigma_threshold
                 \/ LET h == Append(fitness_list, self_best_so_far_y) IN
                       /\ Len(h) >= stagnation
                       /\ h[Len(h) - stagnation + 1] - h[Len(h)] < fitness_diff
        /\ (pc = "restart" /\ n_restart' = n_restart) =>
              UNCHANGED <<mean, y, best_so_far_y, sigma>>
        /\ pc = "select" => pc' = IF is_restart THEN "restart" ELSE "iterate"
      ]_vars

\* Detector B alone has fired: sigma cannot be below the threshold yet
C7_Witness ==
    /\ pc = "iterate" /\ n_restart = 1 /\ n_generations = 2
    /\ sigma_threshold = 0 - 2

\* C8: the incumbent is replaced by the sample if and only if y < best_so_far_y;
\* on y >= best_so_far_y, a tie included, mean and best_so_far_y stay.
C8_StrictAcceptance ==
    [][ /\ pc = "select" =>
              IF y < best_so_far_y
              THEN mean' = x /\ best_so_far_y' = y
              ELSE mean' = mean /\ best_so_far_y' = best_so_far_y
        /\ pc \in {"iterate", "check", "adapt"} => UNCHANGED <<mean, best_so_far_y>>
      ]_vars

\* a tie from another point was discarded
C8_Witness ==
    /\ pc \in {"iterate", "restart"} /\ n_generations >= 1 /\ n_restart = 0
    /\ y = best_so_far_y /\ x # mean

\* C9: a restart that fires adds exactly one to n_restart, which changes in no
\* other way, runs initialize on a restart point (one evaluation, y and
\* best_so_far_y its fitness) and leaves the history holding only the new
\* best_so_far_y.
C9_RestartCounts ==
    [][ /\ n_restart' \in {n_restart, n_restart + 1}
        /\ n_restart' = n_restart + 1 =>
              /\ pc = "restart"
              /\ mean' \in Points
              /\ y' = fitness_function(mean')
              /\ best_so_far_y' = y'
              /\ n_function_evaluations' = n_function_evaluations + 1
              /\ fitness_list' = <<best_so_far_y'>>
      ]_vars

\* after the second restart, at a restart point worse than the best point seen
C9_Witness ==
    /\ pc = "iterate" /\ n_restart = 2 /\ fitness_list = <<best_so_far_y>>
    /\ best_so_far_y > self_best_so_far_y

\* C10 as stated: the end of every non-terminating generation appends one entry
\* to the rolling history, whether or not the gate is set (seen where no
\* restart resets the history).
C10_AppendEveryGeneration ==
    [][(pc \in {"select", "restart"} /\ pc' = "iterate" /\ n_restart' = n_restart) =>
          /\ Len(fitness_list') = Len(fitness_list) + 1
          /\ SubSeq(fitness_list', 1, Len(fitness_list)) = fitness_list]_vars

\* C10 amended: with the gate set, the end of every non-terminating generation
\* appends one entry to the rolling history (which a restart that fires then
\* resets); with the gate not set the history is never appended to.
C10_AppendWhenGateSet ==
    [][ /\ (pc = "restart" /\ n_restart' = n_restart) =>
              /\ is_restart
              /\ Len(fitness_list') = Len(fitness_list) + 1
              /\ SubSeq(fitness_list', 1, Len(fitness_list)) = fitness_list
        /\ (pc # "restart" \/ ~is_restart) => fitness_list' = fitness_list
      ]_vars

\* two generations, each of which appended to the history
C10_Witness ==
    /\ pc = "iterate" /\ is_restart /\ n_restart = 0
    /\ n_generations = 2 /\ Len(fitness_list) = 3

\* C11: with the restart gate not set and the run stopped by its budget of
\* evaluations alone, the evaluation counter at termination equals the budget
\* max_function_evaluations.
C11_BudgetExact ==
    (pc = "done" /\ ~is_restart /\ termination_signal = "MAX_FUNCTION_EVALUATIONS") =>
        n_function_evaluations = max_function_evaluations

\* C13: construction with eta_sigma <= 0 fails before any fitness evaluation and
\* leaves no run state; with eta_sigma not given the learning rate becomes
\* 1/sqrt(n+1), which is positive; a run only ever proceeds with eta_sigma > 0.
C13_ConstructionGuard ==
    /\ [][ pc = "construct" =>
              /\ (eta_sigma # None /\ eta_sigma[1] <= 0) => pc' = "failed"
              /\ eta_sigma = None =>
                    /\ pc' = "optimize"
                    /\ eta_sigma'[1] = 1
                    /\ eta_sigma'[2] = ndim_problem + 1
              /\ n_function_evaluations' = 0
         ]_vars
    /\ [](pc \notin {"construct", "failed"} => (eta_sigma[1] > 0 /\ eta_sigma[2] > 0))
    /\ [](pc = "failed" =>
             /\ n_function_evaluations = 0 /\ n_generations = 0 /\ n_restart = 0
             /\ fitness = <<>> /\ self_best_so_far_y = Inf)
    /\ [][pc = "failed" => UNCHANGED vars]_vars

\* construction with eta_sigma = 0 has failed
C13_Witness ==
    pc = "failed" /\ eta_sigma = <<0, 1>> /\ n_function_evaluations = 0

\* C14: the value that the end of a generation appends to the rolling history
\* is the fitness of the current incumbent, the best_so_far_y of the main loop
\* after the generation's incumbent update, also after a restart.
C14_AppendsIncumbentFitness ==
    [][(pc = "restart" /\ n_restart' = n_restart) =>
           /\ Len(fitness_list') = Len(fitness_list) + 1
           /\ Last(fitness_list') = best_so_far_y]_vars

\* C15: the fitness trace only grows at its end; it starts as the fitness of
\* the initial mean, gains the sample of each iterate call if and only if
\* record_fitness is set, and gains the fitness of the restart point at each
\* restart that fires; at termination its length is one plus the restarts plus,
\* if record_fitness is set, the iterate calls.
C15_TraceAppendOnly ==
    /\ [][ /\ Len(fitness') >= Len(fitness)
           /\ SubSeq(fitness', 1, Len(fitness)) = fitness
           /\ pc = "optimize" => fitness' = <<fitness_function(mean)>>
           /\ pc = "iterate" =>
                 fitness' = IF record_fitness THEN fitness \o <<y'>> ELSE fitness
           /\ n_restart' # n_restart => fitness' = fitness \o <<fitness_function(mean')>>
           /\ (pc \notin {"optimize", "iterate"} /\ n_restart' = n_restart) =>
                 fitness' = fitness
         ]_vars
    /\ [](pc = "done" =>
             Len(fitness) = 1 + n_restart
                            + (IF record_fitness THEN n_generations + 1 ELSE 0))

\* a run without recording has ended after a restart: the trace holds the
\* initial fitness and the restart points' only
C15_Witness ==
    /\ pc = "done" /\ ~record_fitness /\ n_restart >= 1 /\ n_generations >= 2
    /\ Len(fitness) = 1 + n_restart

\* C16 as stated: with the gate set, at the start of every iterate call sigma
\* is at least sigma_threshold or is the initial sigma; and if the initial
\* sigma is below sigma_threshold, a restart fires in every generation.
C16_ThresholdAndAlwaysRestart ==
    /\ []((pc = "iterate" /\ is_restart) =>
             (sigma >= sigma_threshold \/ sigma = sigma_bak))
    /\ [][(pc = "restart" /\ sigma_bak < sigma_threshold) =>
             n_restart' = n_restart + 1]_vars

\* C16 amended: with the gate set, at the start of every iterate call sigma is
\* at least sigma_threshold or is the initial sigma; if the initial sigma is
\* below sigma_threshold, a restart fires in every generation except those in
\* which a success has lifted the adapted sigma to sigma_threshold or above.
C16_ThresholdOrInitial ==
    /\ []((pc = "iterate" /\ is_restart) =>
             (sigma >= sigma_threshold \/ sigma = sigma_bak))
    /\ [][(pc = "restart" /\ sigma_bak < sigma_threshold /\ n_restart' = n_restart) =>
             (sigma >= sigma_threshold /\ sigma > sigma_bak)]_vars

\* a generation has passed without a restart, a later one has reset sigma to
\* an initial value below the threshold
C16_Witness ==
    /\ pc = "iterate" /\ is_restart /\ n_restart >= 1 /\ n_generations > n_restart
    /\ sigma < sigma_threshold

\* The generations completed since the last restart (or since the start): with
\* the gate set, each has appended one entry to the history that the last
\* restart (or the construction) left with one entry.
GenerationsSinceRestart ==
    IF is_restart THEN Len(fitness_list) - 1 ELSE n_generations

\* C17: sigma is not clamped and follows a closed form: between generations,
\* in units of 0.2 eta_sigma, log(sigma / initial sigma) = 4 S - F for numbers
\* S of improving and F of other generations since the last restart, S + F
\* being the generations since then; a generation moves it by +4 or by -1 and
\* a restart resets it to 0, so that a success and four failures cancel.
C17_ClosedForm ==
    /\ [](pc = "iterate" =>
             \E S \in 0 .. GenerationsSinceRestart :
                 sigma - sigma_bak = 4 * S - (GenerationsSinceRestart - S))
    /\ [][ /\ pc = "adapt" =>
                 sigma' - sigma = IF y < best_so_far_y THEN 4 ELSE 0 - 1
           /\ n_restart' # n_restart => sigma' - sigma_bak = 0
           /\ (pc # "adapt" /\ n_restart' = n_restart) => sigma' = sigma
         ]_vars

\* five generations without a restart, one success among them: sigma is back
\* at its initial value
C17_Witness ==
    /\ pc = "iterate" /\ is_restart /\ n_restart = 0
    /\ GenerationsSinceRestart = 5 /\ sigma = sigma_bak
    /\ best_so_far_y < fitness[1]

\* C18: every restart that fires makes one more evaluation: between generations
\* (after the restart check) the evaluation counter is 1 + n_generations +
\* n_restart, and at termination 2 + n_generations + n_restart, the last sample
\* being evaluated but its generation not counted.
C18_EvaluationAccounting ==
    /\ [](pc = "iterate" =>
             n_function_evaluations = 1 + n_generations + n_restart)
    /\ [](pc = "done" =>
             n_function_evaluations = 2 + n_generations + n_restart)
    /\ [][n_restart' # n_restart =>
             n_function_evaluations' = n_function_evaluations + 1]_vars

\* a run with two restarts has ended
C18_Witness == pc = "done" /\ n_restart >= 2 /\ n_generations >= 2

\* C19: with a budget B of evaluations every run terminates, also when a restart
\* fires in every generation, and the evaluation counter never exceeds B + 1.
C19_TerminatesWithinBudgetPlusOne ==
    /\ [](n_function_evaluations <= max_function_evaluations + 1)
    /\ <>(pc = "done")

\* a run in which every generation restarted has ended one evaluation over
C19_Witness ==
    /\ pc = "done" /\ n_generations >= 2 /\ n_restart = n_generations
    /\ n_function_evaluations = max_function_evaluations + 1

=============================================================================
